---- MODULE Spec2Model ----
(***************************************************************************)
(* Monte-Carlo retirement simulator: MonteCarloRetirementSimulator's       *)
(* run_simulation of src/app.py (the web simulator, variant "app") and of  *)
(* src/monte_carlo.py (the extended simulator, variant "mc"), and the      *)
(* process-wide numpy generator both draw their monthly samples from.      *)
(*                                                                         *)
(* Numbers.  The program computes in binary floating point.  The model     *)
(* computes exactly, on inputs for which the program's arithmetic is exact *)
(* too: money is a whole number, a rate given in percent is a multiple of  *)
(* 100, so that a decimal rate is a whole number (1 = 100 %), and          *)
(* 1 + annual_return is a perfect 12th power.  Quotients (the mean, the    *)
(* percentiles, the success probability) are rationals [num, den] in       *)
(* lowest terms; the standard deviation, a square root, is held by its     *)
(* radicand.                                                               *)
(*                                                                         *)
(* monthly_volatility = annual_volatility / sqrt(12) is held as its        *)
(* coefficient v of v / sqrt(12); the generator's standard-normal deviates *)
(* are k * sqrt(12) for whole k, held as k, so that scale * z = v * k.     *)
(***************************************************************************)
EXTENDS Integers, Sequences, FiniteSets, TLC

\* ------------------------------------------------------------------ bounds

\* years ranges over -1 .. MaxYears
MaxYears == 2
\* n_simulations ranges over -1 .. MaxSims
MaxSims == 3
\* current_savings and goal_amount range up to MaxMoney
MaxMoney == 2
\* the generator is seeded with one of 0 .. MaxSeed
MaxSeed == 3

\* ---------------------------------------------------------------- numbers

Abs(x) == IF x < 0 THEN -x ELSE x

\* (the arithmetic below is written as functions so that their arguments
\* are evaluated once, before the application)
GcdOf[a \in Nat, b \in Nat] == IF b = 0 THEN a ELSE GcdOf[b, a % b]

Gcd(a, b) == GcdOf[a, b]

\* the rational n / d (d # 0) in lowest terms with a positive denominator
LowestTerms[n \in Int, d \in Int] ==
    LET g == Gcd(Abs(n), Abs(d))
        s == IF d < 0 THEN -1 ELSE 1
    IN  [num |-> s * (n \div g), den |-> s * (d \div g)]

R(n, d) == LowestTerms[n, d]

Rationals == [num : Int, den : Int]

FromInt(n) == [num |-> n, den |-> 1]

Sums[a \in Rationals, b \in Rationals] ==
    R(a.num * b.den + b.num * a.den, a.den * b.den)

Differences[a \in Rationals, b \in Rationals] ==
    R(a.num * b.den - b.num * a.den, a.den * b.den)

Products[a \in Rationals, b \in Rationals] ==
    R(a.num * b.num, a.den * b.den)

RAdd(a, b) == Sums[a, b]
RSub(a, b) == Differences[a, b]
RMul(a, b) == Products[a, b]
RLeq(a, b) == a.num * b.den <= b.num * a.den

\* base ** e for a whole exponent e >= 0
RECURSIVE Pow(_, _)
Pow(b, e) == IF e <= 0 THEN 1 ELSE b * Pow(b, e - 1)

\* x ** (1/12) for x a perfect 12th power
Root12(x) == CHOOSE y \in 0..x : Pow(y, 12) = x

\* np.sqrt of a rational a >= 0: the non-negative number whose square is a,
\* held by its radicand (the root of 2/9 is no rational); two roots are
\* equal exactly when their radicands are
RSqrt(a) == [radicand |-> a]

RECURSIVE SumTo(_, _)
SumTo(s, k) == IF k = 0 THEN 0 ELSE s[k] + SumTo(s, k - 1)

\* np.sum
Sum(s) == SumTo(s, Len(s))

\* ---------------------------------------------------- the numpy generator

\* np.random's process-wide generator: one step of its state.  A full-period
\* congruential generator of 65536 states stands for the Mersenne twister:
\* no sequence of draws the program makes brings it back to a state it was
\* in.
RngNext(s) == (25173 * s + 13849) % 65536

RECURSIVE RngAdvance(_, _)
RngAdvance(s, k) == IF k <= 0 THEN s ELSE RngAdvance(RngNext(s), k - 1)

\* the standard-normal deviate (in units of sqrt(12)) the generator gives
\* in state s, by the top three bits of the state: negative, none, positive
RngDeviate(s) ==
    LET top == s \div 8192
    IN  IF top <= 1 THEN -1 ELSE IF top >= 6 THEN 1 ELSE 0

\* the draw with the scale left out: a standard-normal draw shifted by loc
NormalUnitScale(loc, scale, size, s) ==
    [i \in 1..size |-> loc + RngDeviate(RngAdvance(s, i))]

\* np.random.normal(loc, scale, size) called with the generator in state s:
\* loc + scale * z for each of the next `size` deviates z
Normal(loc, scale, size, s) ==
    [i \in 1..size |-> loc + scale * RngDeviate(RngAdvance(s, i))]

\* ------------------------------------------------------------- parameters

Variants == {"app", "mc"}

\* parameter sets with a positive return: 1 + annual_return = 2 ** 12, one or
\* two years, no volatility and no contribution (the balance doubles every
\* month, so these stay short)
GrowthParamSets ==
    [current_savings : 0..MaxMoney,
     monthly_contribution : {0},
     years : 1..2,
     annual_return : {409500},
     annual_volatility : {0},
     inflation_rate : {0},
     goal_amount : {0, MaxMoney},
     n_simulations : 1..2]

\* the scenarios of falling prices: inflation at -100 percent and below,
\* where 1 + inflation_rate is zero or negative
DeflationParamSets ==
    [current_savings : {MaxMoney},
     monthly_contribution : {0, 1},
     years : 1..MaxYears,
     annual_return : {0},
     annual_volatility : {0, 100},
     inflation_rate : {-300, -200, -100},
     goal_amount : 0..MaxMoney,
     n_simulations : 1..2]

\* the keyword arguments of run_simulation; rates in percent
ParamSets ==
    [current_savings : 0..MaxMoney,
     monthly_contribution : {0, 1},
     years : -1..MaxYears,
     annual_return : {-100, 0},
     annual_volatility : {-100, 0, 100},
     inflation_rate : {0, 100},
     goal_amount : 0..MaxMoney,
     n_simulations : -1..MaxSims]
    \cup GrowthParamSets
    \cup DeflationParamSets

\* "Convert percentages"
PercentToDecimal(x) == x \div 100

\* a slip in the row count: one month too many
MonthsOffByOne(years) == years * 12 + 1

\* months = years * 12
Months(years) == years * 12

\* simple instead of compound inflation
FutureGoalSimple(goal_amount, inflation_rate, years) ==
    goal_amount * (1 + inflation_rate * years)

\* future_goal = goal_amount * (1 + inflation_rate) ** years
FutureGoal(goal_amount, inflation_rate, years) ==
    goal_amount * Pow(1 + inflation_rate, years)

\* the 12th root taken as the monthly return, 1 not subtracted
MonthlyReturnGross(annual_return) == Root12(1 + annual_return)

\* monthly_return = (1 + annual_return) ** (1/12) - 1
MonthlyReturn(annual_return) == Root12(1 + annual_return) - 1

\* monthly_volatility = annual_volatility / np.sqrt(12), as the coefficient
\* of 1 / sqrt(12)
MonthlyVolatility(annual_volatility) == annual_volatility

\* the local variables run_simulation computes before its loop
Locals(p) ==
    LET annual_return == PercentToDecimal(p.annual_return)
        annual_volatility == PercentToDecimal(p.annual_volatility)
        inflation_rate == PercentToDecimal(p.inflation_rate)
    IN  [annual_return |-> annual_return,
         annual_volatility |-> annual_volatility,
         inflation_rate |-> inflation_rate,
         future_goal |-> FutureGoal(p.goal_amount, inflation_rate, p.years),
         months |-> Months(p.years),
         monthly_return |-> MonthlyReturn(annual_return),
         monthly_volatility |-> MonthlyVolatility(annual_volatility)]

\* the matrix of zeros with row 0 not written
InitResultsZeros(months, n_simulations, current_savings) ==
    [m \in 0..months |-> [c \in 1..n_simulations |-> 0]]

\* np.zeros((months + 1, n_simulations)); results[0] = current_savings
InitResults(months, n_simulations, current_savings) ==
    [m \in 0..months |->
        [c \in 1..n_simulations |-> IF m = 0 THEN current_savings ELSE 0]]

\* the web simulator with the other file's year-end guard
AppSkipsYearEnd(mth) == mth % 12 # 0

\* app.py: results[month] += monthly_contribution, in every month
AppAddsContribution(mth) == TRUE

\* the extended simulator skipping the first month of a year instead
McSkipsYearStart(mth) == mth % 12 # 1

\* the extended simulator without its year-end guard
McAddsEveryMonth(mth) == TRUE

\* monte_carlo.py: if month % 12 != 0: results[month] += monthly_contribution
McAddsContribution(mth) == mth % 12 # 0

\* whether the loop body adds the contribution in this month
AddsContribution(v, mth) ==
    IF v = "app" THEN AppAddsContribution(mth) ELSE McAddsContribution(mth)

\* the new row without the month's returns
NextRowFlat(v, prev, random_returns, mth, monthly_contribution) ==
    [c \in 1..Len(prev) |->
        prev[c]
          + (IF AddsContribution(v, mth) THEN monthly_contribution ELSE 0)]

\* results[month] = results[month - 1] * (1 + random_returns), then the
\* contribution
NextRow(v, prev, random_returns, mth, monthly_contribution) ==
    [c \in 1..Len(prev) |->
        prev[c] * (1 + random_returns[c])
          + (IF AddsContribution(v, mth) THEN monthly_contribution ELSE 0)]

\* ------------------------------------------------------------- statistics

\* the comparison made exclusive
MeetsGoalStrict(b, future_goal) == b > future_goal

\* final_values >= future_goal, elementwise
MeetsGoal(b, future_goal) == b >= future_goal

\* success_count = np.sum(final_values >= future_goal)
SuccessCount(final_values, future_goal) ==
    Cardinality({c \in 1..Len(final_values) :
                    MeetsGoal(final_values[c], future_goal)})

\* the fraction left unscaled
SuccessFraction(final_values, future_goal, n_simulations) ==
    R(SuccessCount(final_values, future_goal), n_simulations)

\* success_probability = (success_count / n_simulations) * 100
SuccessProbability(final_values, future_goal, n_simulations) ==
    RMul(R(SuccessCount(final_values, future_goal), n_simulations), FromInt(100))

\* the sample left in column order
Unsorted(final_values) == final_values

\* the sample in ascending order, as np.percentile orders it
Sorted(final_values) == SortSeq(final_values, LAMBDA a, b : a < b)

\* np.percentile(final_values, q), method "linear": the virtual index
\* (n - 1) * q / 100, interpolated between the two order statistics
Percentile(final_values, q) ==
    LET a == Sorted(final_values)
        n == Len(a)
        pos == (n - 1) * q
        lo == pos \div 100
        hi == IF lo + 1 < n THEN lo + 1 ELSE lo
        gamma == R(pos % 100, 100)
    IN  RAdd(FromInt(a[lo + 1]),
             RMul(FromInt(a[hi + 1] - a[lo + 1]), gamma))

\* the percentiles dictionary
Percentiles(final_values) ==
    [p5 |-> Percentile(final_values, 5),
     p25 |-> Percentile(final_values, 25),
     p50 |-> Percentile(final_values, 50),
     p75 |-> Percentile(final_values, 75),
     p95 |-> Percentile(final_values, 95)]

\* np.mean
Mean(final_values) == R(Sum(final_values), Len(final_values))

RECURSIVE SumSqDevTo(_, _, _)
SumSqDevTo(s, mean, k) ==
    IF k = 0 THEN FromInt(0)
    ELSE LET d == RSub(FromInt(s[k]), mean)
         IN  RAdd(RMul(d, d), SumSqDevTo(s, mean, k - 1))

\* np.std: the population standard deviation sqrt(mean(|x - mean|**2))
Std(final_values) ==
    LET n == Len(final_values)
        sq == SumSqDevTo(final_values, Mean(final_values), n)
    IN  RSqrt(R(sq.num, sq.den * n))

\* np.min, np.max
Min(final_values) ==
    CHOOSE x \in {final_values[c] : c \in 1..Len(final_values)} :
        \A c \in 1..Len(final_values) : x <= final_values[c]

Max(final_values) ==
    CHOOSE x \in {final_values[c] : c \in 1..Len(final_values)} :
        \A c \in 1..Len(final_values) : x >= final_values[c]

\* the mask made inclusive
FallsShortOrEqual(b, future_goal) == b <= future_goal

\* final_values < future_goal, the mask of the shortfall
FallsShort(b, future_goal) == b < future_goal

\* the difference taken the other way round
ShortfallAmountReversed(final_values, future_goal) ==
    LET short == SelectSeq(final_values, LAMBDA b : FallsShort(b, future_goal))
    IN  [k \in 1..Len(short) |-> short[k] - future_goal]

\* shortfall_amount = future_goal - final_values[final_values < future_goal]
ShortfallAmount(final_values, future_goal) ==
    LET short == SelectSeq(final_values, LAMBDA b : FallsShort(b, future_goal))
    IN  [k \in 1..Len(short) |-> future_goal - short[k]]

\* avg_shortfall = np.mean(shortfall_amount) if len(shortfall_amount) > 0 else 0
AvgShortfall(final_values, future_goal) ==
    LET shortfall_amount == ShortfallAmount(final_values, future_goal)
    IN  IF Len(shortfall_amount) > 0
        THEN R(Sum(shortfall_amount), Len(shortfall_amount))
        ELSE FromInt(0)

\* the summary dictionary of app.py
AppSummary(final_values, future_goal, n_simulations) ==
    LET percentiles == Percentiles(final_values)
    IN  [success_probability |->
             SuccessProbability(final_values, future_goal, n_simulations),
         future_goal |-> FromInt(future_goal),
         median_final_value |-> percentiles.p50,
         mean_final_value |-> Mean(final_values),
         std_final_value |-> Std(final_values),
         min_value |-> FromInt(Min(final_values)),
         max_value |-> FromInt(Max(final_values)),
         percentiles |-> percentiles,
         n_simulations |-> n_simulations]

\* the summary dictionary of monte_carlo.py
McSummary(final_values, future_goal, n_simulations) ==
    LET percentiles == Percentiles(final_values)
        success_probability ==
            SuccessProbability(final_values, future_goal, n_simulations)
    IN  [success_probability |-> success_probability,
         future_goal |-> FromInt(future_goal),
         median_final_value |-> percentiles.p50,
         mean_final_value |-> Mean(final_values),
         std_final_value |-> Std(final_values),
         percentiles |-> percentiles,
         avg_shortfall |-> AvgShortfall(final_values, future_goal),
         min_value |-> FromInt(Min(final_values)),
         max_value |-> FromInt(Max(final_values)),
         shortfall_probability |-> RSub(FromInt(100), success_probability)]

Summary(v, final_values, future_goal, n_simulations) ==
    IF v = "app" THEN AppSummary(final_values, future_goal, n_simulations)
    ELSE McSummary(final_values, future_goal, n_simulations)

\* ------------------------------------------------------------------ state

\* two calls of run_simulation, each on a simulator object of its own (two
\* /simulate requests on two threads of the server)
Runs == {1, 2}

None == "None"

\* a name of run_simulation that is not bound yet
Unbound == [bound |-> FALSE]

\* no matrix: the local results before np.zeros, and self.results = None
NoMatrix == <<>>

VARIABLES
    rng,                  \* the state of np.random's process-wide generator
    pc,                   \* pc[r]: "idle", "loop", "done" or "failed"
    variant,              \* variant[r]: which file's run_simulation run r is
    args,                 \* args[r]: the parameters run r was called with
    locals,               \* locals[r]: what the run computed before its loop
    month,                \* month[r]: the last month of the loop completed
    results,              \* results[r]: the run's local matrix
    samples,              \* samples[r][m]: random_returns as drawn in month m
    contributions_added,  \* how many months executed the += contribution
    self_results,         \* self.results of run r's simulator object
    summary,              \* summary[r]: the dictionary the run returned
    error,                \* error[r]: the exception the run raised
    request,              \* request[r]: the body of the /simulate request
    response,             \* response[r]: the responses simulate() has sent
    stage,                \* stage[r]: "none", "running" or "responded"
    plot_data,            \* plot_data[r]: what create_plot returned
    sens,                 \* the call of sensitivity_analysis under way
    report                \* generate_report and the page's colour class

\* the state of the callers of run_simulation
callers == <<request, response, stage, plot_data, sens, report>>

vars == <<rng, pc, variant, args, locals, month, results, samples,
          contributions_added, self_results, summary, error, request,
          response, stage, plot_data, sens, report>>

\* __init__: self.results = None; nothing has been called
InitRuns ==
    /\ pc = [r \in Runs |-> "idle"]
    /\ variant = [r \in Runs |-> None]
    /\ args = [r \in Runs |-> Unbound]
    /\ locals = [r \in Runs |-> Unbound]
    /\ month = [r \in Runs |-> 0]
    /\ results = [r \in Runs |-> NoMatrix]
    /\ samples = [r \in Runs |-> <<>>]
    /\ contributions_added = [r \in Runs |-> 0]
    /\ self_results = [r \in Runs |-> NoMatrix]
    /\ summary = [r \in Runs |-> Unbound]
    /\ error = [r \in Runs |-> None]

\* no request received, no sensitivity analysis started, no report printed
InitCallers ==
    /\ request = [r \in Runs |-> [received |-> FALSE]]
    /\ response = [r \in Runs |-> <<>>]
    /\ stage = [r \in Runs |-> "none"]
    /\ plot_data = [r \in Runs |-> [called |-> FALSE]]
    /\ sens = [status |-> "none"]
    /\ report = [success_probability |-> FromInt(0), tier |-> None,
                 colour |-> None]

Init ==
    /\ rng \in 0..MaxSeed
    /\ InitRuns
    /\ InitCallers

\* the exception run_simulation raises before its loop, or None:
\* 0.0 ** negative (ZeroDivisionError) in future_goal, then np.zeros with a
\* negative dimension (ValueError)
SetupError(p) ==
    IF p.years < 0 /\ 1 + PercentToDecimal(p.inflation_rate) = 0
    THEN "ZeroDivisionError"
    ELSE IF Months(p.years) + 1 < 0 \/ p.n_simulations < 0
    THEN "ValueError"
    ELSE None

\* run_simulation(**p) up to the loop: the conversions, future_goal, the
\* monthly values and the matrix.  The locals of an earlier call on the same
\* object are gone, also when this call raises before it has a matrix;
\* self.results and the summary it returned are not touched.
Enter(r, v, p) ==
    /\ variant' = [variant EXCEPT ![r] = v]
    /\ args' = [args EXCEPT ![r] = p]
    /\ month' = [month EXCEPT ![r] = 0]
    /\ samples' = [samples EXCEPT ![r] = <<>>]
    /\ contributions_added' = [contributions_added EXCEPT ![r] = 0]
    /\ IF SetupError(p) # None
       THEN /\ pc' = [pc EXCEPT ![r] = "failed"]
            /\ error' = [error EXCEPT ![r] = SetupError(p)]
            /\ locals' = [locals EXCEPT ![r] = Unbound]
            /\ results' = [results EXCEPT ![r] = NoMatrix]
       ELSE /\ pc' = [pc EXCEPT ![r] = "loop"]
            /\ locals' = [locals EXCEPT ![r] = Locals(p)]
            /\ results' = [results EXCEPT ![r] =
                   InitResults(Months(p.years), p.n_simulations,
                               p.current_savings)]
            /\ UNCHANGED error
    /\ UNCHANGED <<rng, self_results, summary>>

\* a first call of run_simulation on a new simulator object
Call(r, v, p) ==
    /\ pc[r] = "idle"
    /\ Enter(r, v, p)
    /\ UNCHANGED callers

\* one iteration of "for month in range(1, months + 1)": the draw from the
\* process-wide generator (ValueError when scale < 0), the new row, the
\* contribution
Iterate(r) ==
    /\ pc[r] = "loop"
    /\ month[r] < locals[r].months
    /\ LET mth == month[r] + 1
           n == args[r].n_simulations
       IN  IF locals[r].monthly_volatility < 0
           THEN /\ pc' = [pc EXCEPT ![r] = "failed"]
                /\ error' = [error EXCEPT ![r] = "ValueError"]
                /\ UNCHANGED <<rng, month, results, samples,
                               contributions_added>>
           ELSE LET random_returns ==
                        Normal(locals[r].monthly_return,
                               locals[r].monthly_volatility, n, rng)
                IN  /\ rng' = RngAdvance(rng, n)
                    /\ samples' = [samples EXCEPT ![r] =
                                      Append(@, random_returns)]
                    /\ results' = [results EXCEPT ![r][mth] =
                           NextRow(variant[r], results[r][mth - 1],
                                   random_returns, mth,
                                   args[r].monthly_contribution)]
                    /\ contributions_added' =
                           [contributions_added EXCEPT ![r] =
                               IF AddsContribution(variant[r], mth)
                               THEN @ + 1 ELSE @]
                    /\ month' = [month EXCEPT ![r] = mth]
                    /\ UNCHANGED <<pc, error>>
    /\ UNCHANGED <<variant, args, locals, self_results, summary>>
    /\ UNCHANGED callers

\* the statistics taken from the first row instead of the last
FirstValues(matrix, months) == matrix[0]

\* results[-1]
FinalValues(matrix, months) == matrix[months]

\* after the loop: self.results = results, the statistics, return summary.
\* With no column np.percentile raises IndexError or, in a numpy where it
\* answers nan, np.min raises ValueError.
Finish(r) ==
    /\ pc[r] = "loop"
    /\ month[r] = locals[r].months
    /\ self_results' = [self_results EXCEPT ![r] = results[r]]
    /\ IF args[r].n_simulations = 0
       THEN /\ pc' = [pc EXCEPT ![r] = "failed"]
            /\ \E e \in {"IndexError", "ValueError"} :
                   error' = [error EXCEPT ![r] = e]
            /\ UNCHANGED summary
       ELSE /\ pc' = [pc EXCEPT ![r] = "done"]
            /\ summary' = [summary EXCEPT ![r] =
                   Summary(variant[r],
                           FinalValues(results[r], locals[r].months),
                           locals[r].future_goal, args[r].n_simulations)]
            /\ UNCHANGED error
    /\ UNCHANGED <<rng, variant, args, locals, month, results, samples,
                   contributions_added>>
    /\ UNCHANGED callers

\* one call of run_simulation, of either file, with any parameters
CallAny ==
    /\ pc[1] = "idle"
    /\ \E v \in Variants : \E p \in ParamSets : Call(1, v, p)

IterateMain == Iterate(1)

FinishMain == Finish(1)

Next == CallAny \/ IterateMain \/ FinishMain

Spec == Init /\ [][Next]_vars

\* Two /simulate requests served at once: each thread constructs a simulator
\* of its own and calls app.py's run_simulation; the threads interleave
\* between the loop's iterations, and both draw from the one process-wide
\* generator.  Request 1 is for one column, with or without volatility;
\* request 2 is for a portfolio without volatility.
ConcParamSets(r) ==
    {p \in ParamSets :
        /\ p.years = 1
        /\ p.annual_return = 0
        /\ p.inflation_rate = 0
        /\ p.current_savings = MaxMoney
        /\ p.goal_amount = MaxMoney
        /\ p.monthly_contribution = 1
        /\ IF r = 1
           THEN p.n_simulations = 1 /\ p.annual_volatility \in {0, 100}
           ELSE p.n_simulations \in 1..2 /\ p.annual_volatility = 0}

CallConc(r) ==
    /\ pc[r] = "idle"
    /\ \E p \in ConcParamSets(r) : Call(r, "app", p)

NextConc == \E r \in Runs : CallConc(r) \/ Iterate(r) \/ Finish(r)

SpecConc == Init /\ [][NextConc]_vars

\* ------------------------------------------------------------ /simulate

\* the keys of the request's JSON object, and which of them int() parses
Keys == {"current_savings", "monthly_contribution", "years", "annual_return",
         "annual_volatility", "inflation_rate", "goal_amount",
         "n_simulations"}

IntKeys == {"years", "n_simulations"}

\* JSON values: a number v, a string s or null
JsonNumber(n, d) == [t |-> "number", v |-> R(n, d), s |-> ""]

JsonString(text) == [t |-> "string", v |-> R(0, 1), s |-> text]

JsonNull == [t |-> "null", v |-> R(0, 1), s |-> ""]

\* the strings the requests carry are "1", "2", "1.5" and "abc"; those that
\* spell a number, those that spell a whole number, and the number spelt
Numerals == {"1", "2", "1.5"}

WholeNumerals == {"1", "2"}

NumeralValue(text) ==
    IF text = "1" THEN R(1, 1) ELSE IF text = "2" THEN R(2, 1) ELSE R(3, 2)

\* float(x): a number as it is, a numeral's value ("1.5" is 3/2), ValueError
\* for any other string, TypeError for null.  Answers [value, raised].
FloatOf(x) ==
    IF x.t = "number" THEN [value |-> x.v, raised |-> None]
    ELSE IF x.t = "null" THEN [value |-> None, raised |-> "TypeError"]
    ELSE IF x.s \in Numerals
         THEN [value |-> NumeralValue(x.s), raised |-> None]
         ELSE [value |-> None, raised |-> "ValueError"]

\* int(x): a number truncated toward zero, a whole numeral's value,
\* ValueError for any other string ("1.5" too), TypeError for null
IntOf(x) ==
    IF x.t = "number"
    THEN [value |-> FromInt(IF x.v.num >= 0
                            THEN x.v.num \div x.v.den
                            ELSE -((-x.v.num) \div x.v.den)),
          raised |-> None]
    ELSE IF x.t = "null" THEN [value |-> None, raised |-> "TypeError"]
    ELSE IF x.s \in WholeNumerals
         THEN [value |-> NumeralValue(x.s), raised |-> None]
         ELSE [value |-> None, raised |-> "ValueError"]

\* the conversion simulate() applies to the value under a key
Parse(data, key) == IF key \in IntKeys THEN IntOf(data[key])
                    ELSE FloatOf(data[key])

\* the first conversion that raises, in the order the dictionary is built
KeyOrder == <<"current_savings", "monthly_contribution", "years",
              "annual_return", "annual_volatility", "inflation_rate",
              "goal_amount", "n_simulations">>

ParseError(data) ==
    LET bad == {k \in 1..Len(KeyOrder) :
                   Parse(data, KeyOrder[k]).raised # None}
    IN  IF bad = {} THEN None
        ELSE Parse(data, KeyOrder[CHOOSE k \in bad :
                                      \A j \in bad : k <= j]).raised

\* params, once every conversion has succeeded; the values are whole numbers
Params(data) == [k \in Keys |-> Parse(data, k).value.num]

\* the requests whose values are all numbers: the parameter sets at the top
\* of the money range, with a contribution and, but for the growing ones,
\* with inflation
WebParamSets ==
    {p \in ParamSets :
        /\ p.current_savings = MaxMoney /\ p.goal_amount = MaxMoney
        /\ p \in GrowthParamSets
             \/ (p.monthly_contribution = 1 /\ p.inflation_rate = 100)}

AllNumbers(p) == [k \in Keys |-> JsonNumber(p[k], 1)]

\* the requests that differ from a plain one in one value: a fractional
\* number or a string for years, a string or null for goal_amount
WebBase ==
    {p \in WebParamSets :
        /\ p.years = 1 /\ p.n_simulations = 2 /\ p.annual_return = 0
        /\ p.inflation_rate = 100 /\ p.monthly_contribution = 1}

YearsValues == {JsonNumber(3, 2), JsonNumber(-1, 2), JsonString("2"),
                JsonString("1.5"), JsonNull}

GoalValues == {JsonString("1"), JsonString("abc"), JsonNull}

\* the JSON objects request.get_json() hands to simulate(), each with the
\* eight keys
Objects ==
    {AllNumbers(p) : p \in WebParamSets}
    \cup {[AllNumbers(p) EXCEPT !.years = y] :
              p \in WebBase, y \in YearsValues}
    \cup {[AllNumbers(p) EXCEPT !.goal_amount = g] :
              p \in WebBase, g \in GoalValues}

\* the error response of a failure status that was left out
SimulateResponseNoStatus(raised, s, plot) ==
    IF raised # None
    THEN [body |-> [success |-> FALSE, error |-> raised], status |-> 200]
    ELSE [body |-> [success |-> TRUE, summary |-> s, plot |-> plot],
          status |-> 200]

\* the two return statements of simulate(): jsonify of success, summary and
\* plot, or jsonify of success and error with status 500
SimulateResponse(raised, s, plot) ==
    IF raised # None
    THEN [body |-> [success |-> FALSE, error |-> raised], status |-> 500]
    ELSE [body |-> [success |-> TRUE, summary |-> s, plot |-> plot],
          status |-> 200]

\* create_plot without its try/except
CreatePlotUncaught(fails) ==
    IF fails THEN [returned |-> None, raised |-> "Exception"]
    ELSE [returned |-> "png", raised |-> None]

\* create_plot: the encoded image, or None when anything in it raised; no
\* exception leaves it
CreatePlot(fails) ==
    IF fails THEN [returned |-> None, raised |-> None]
    ELSE [returned |-> "png", raised |-> None]

\* the bodies, posted as application/json, that hold no JSON object
Bodies == {"not JSON", "not an object"}

\* what simulate() raises on such a body: request.get_json() raises
\* BadRequest on a body that is not JSON; on JSON that is not an object
\* (a list, a number, null) it returns the value and data.get raises
\* AttributeError
GetJsonError(body) ==
    IF body = "not JSON" THEN "BadRequest" ELSE "AttributeError"

\* simulate() up to the call of run_simulation: get_json, the conversions,
\* a new simulator, and run_simulation as far as its loop; a failure before
\* the call is answered at once.  The body may hold no JSON object:
\* get_json() or data.get then raises.
SimulateBegin(r) ==
    /\ stage[r] = "none"
    /\ pc[r] = "idle"
    /\ sens.status = "none"
    /\ \/ \E body \in Bodies :
          /\ request' = [request EXCEPT ![r] =
                 [received |-> TRUE, object |-> FALSE, body |-> body]]
          /\ response' = [response EXCEPT ![r] =
                 Append(@, SimulateResponse(GetJsonError(body), None, None))]
          /\ stage' = [stage EXCEPT ![r] = "responded"]
          /\ UNCHANGED <<rng, pc, variant, args, locals, month, results,
                         samples, contributions_added, self_results,
                         summary, error>>
       \/ \E data \in Objects :
              /\ request' = [request EXCEPT ![r] =
                     [received |-> TRUE, object |-> TRUE, data |-> data]]
              /\ IF ParseError(data) # None
                 THEN /\ response' = [response EXCEPT ![r] = Append(@,
                             SimulateResponse(ParseError(data), None, None))]
                      /\ stage' = [stage EXCEPT ![r] = "responded"]
                      /\ UNCHANGED <<rng, pc, variant, args, locals, month,
                                     results, samples, contributions_added,
                                     self_results, summary, error>>
                 ELSE /\ Enter(r, "app", Params(data))
                      /\ stage' = [stage EXCEPT ![r] = "running"]
                      /\ UNCHANGED response
    /\ UNCHANGED <<plot_data, sens, report>>

\* the rest of simulate(): create_plot and the success response when
\* run_simulation returned, the error response when it raised
SimulateEnd(r) ==
    /\ stage[r] = "running"
    /\ pc[r] \in {"done", "failed"}
    /\ IF pc[r] = "failed"
       THEN /\ response' = [response EXCEPT ![r] = Append(@,
                   SimulateResponse(error[r], None, None))]
            /\ UNCHANGED plot_data
       ELSE \E fails \in BOOLEAN :
                LET plot == CreatePlot(fails)
                IN  /\ plot_data' = [plot_data EXCEPT ![r] =
                           [called |-> TRUE, fails |-> fails,
                            returned |-> plot.returned]]
                    /\ response' = [response EXCEPT ![r] = Append(@,
                           SimulateResponse(plot.raised, summary[r],
                                            plot.returned))]
    /\ stage' = [stage EXCEPT ![r] = "responded"]
    /\ UNCHANGED <<rng, pc, variant, args, locals, month, results, samples,
                   contributions_added, self_results, summary, error,
                   request, sens, report>>

\* -------------------------------------------------- sensitivity_analysis

\* the variables the analyses vary and the values they try for each
SensVariables == {"current_savings", "annual_volatility", "inflation_rate",
                  "n_simulations"}

TestValueSets(variable_to_test) ==
    {p[variable_to_test] : p \in ParamSets \ GrowthParamSets}

\* the longest list of test values
MaxTests == 2

TestLists(variable_to_test) ==
    UNION {[1..k -> TestValueSets(variable_to_test)] : k \in 0..MaxTests}

\* the base inputs of the analyses
SensBaseSets ==
    {p \in ParamSets \ GrowthParamSets :
        /\ p.current_savings = MaxMoney /\ p.goal_amount = MaxMoney
        /\ p.years = 1 /\ p.n_simulations = 2 /\ p.monthly_contribution = 1
        /\ p.annual_return = 0
        /\ p.annual_volatility \in {0, 100}
        /\ p.inflation_rate \in {0, 100}}

\* base_inputs with the test value written through, as if test_inputs were
\* the same dictionary
BaseInputsAliased(base_inputs, variable_to_test, value) ==
    [base_inputs EXCEPT ![variable_to_test] = value]

\* base_inputs after "test_inputs = base_inputs.copy()" and
\* "test_inputs[variable_to_test] = value": the assignment goes to the copy
BaseInputsAfterTest(base_inputs, variable_to_test, value) == base_inputs

\* test_inputs after the same two statements
TestInputs(base_inputs, variable_to_test, value) ==
    [base_inputs EXCEPT ![variable_to_test] = value]

\* the dictionary appended to results; its first key is variable_to_test
SensRow(value, s) ==
    [value |-> value,
     success_probability |-> s.success_probability,
     median_value |-> s.median_final_value]

\* sensitivity_analysis(base_inputs, variable_to_test, test_values) is
\* called on a new simulator: results = []
SensStart(r) ==
    /\ sens.status = "none"
    /\ stage[r] = "none"
    /\ pc[r] = "idle"
    /\ \E base_inputs \in SensBaseSets :
       \E variable_to_test \in SensVariables :
       \E test_values \in TestLists(variable_to_test) :
           sens' = [status |-> "running", base_inputs |-> base_inputs,
                    variable_to_test |-> variable_to_test,
                    test_values |-> test_values, i |-> 0, results |-> <<>>]
    /\ UNCHANGED <<rng, pc, variant, args, locals, month, results, samples,
                   contributions_added, self_results, summary, error,
                   request, response, stage, plot_data, report>>

\* between two runs of the loop "for value in test_values": the row of the
\* run that returned is appended, then run_simulation is called with the
\* next value as far as its loop, or, the list exhausted, the DataFrame is
\* built and plotted (KeyError on variable_to_test when it has no row)
SensNext(r) ==
    /\ sens.status = "running"
    /\ sens.i = 0 \/ pc[r] = "done"
    /\ LET rows == IF sens.i = 0 THEN sens.results
                   ELSE Append(sens.results,
                               SensRow(sens.test_values[sens.i], summary[r]))
       IN  IF sens.i < Len(sens.test_values)
           THEN LET value == sens.test_values[sens.i + 1]
                IN  /\ Enter(r, "mc", TestInputs(sens.base_inputs,
                                          sens.variable_to_test, value))
                    /\ sens' = [sens EXCEPT
                           !.i = sens.i + 1,
                           !.results = rows,
                           !.base_inputs = BaseInputsAfterTest(
                               sens.base_inputs, sens.variable_to_test,
                               value)]
           ELSE /\ sens' = [sens EXCEPT
                       !.status = IF rows = <<>> THEN "failed" ELSE "done",
                       !.results = rows]
                /\ UNCHANGED <<rng, pc, variant, args, locals, month,
                               results, samples, contributions_added,
                               self_results, summary, error>>
    /\ UNCHANGED <<request, response, stage, plot_data, report>>

\* run_simulation raised: sensitivity_analysis catches nothing, the
\* exception leaves it and the rows gathered so far are lost with it
SensAbort(r) ==
    /\ sens.status = "running"
    /\ pc[r] = "failed"
    /\ sens' = [sens EXCEPT !.status = "failed"]
    /\ UNCHANGED <<rng, pc, variant, args, locals, month, results, samples,
                   contributions_added, self_results, summary, error,
                   request, response, stage, plot_data, report>>

\* ---------------------------------------------- the callers' specification

SimulateBeginMain == SimulateBegin(1)

SimulateEndMain == SimulateEnd(1)

SensStartMain == SensStart(1)

SensNextMain == SensNext(1)

SensAbortMain == SensAbort(1)

\* one simulator object serving either one /simulate request or one
\* sensitivity analysis
NextCallers ==
    \/ SimulateBeginMain
    \/ SimulateEndMain
    \/ SensStartMain
    \/ SensNextMain
    \/ SensAbortMain
    \/ IterateMain
    \/ FinishMain

SpecCallers == Init /\ [][NextCallers]_vars

\* where the handler and the analysis stand; every step changes it
control == <<pc, month, stage, sens>>

\* the web application alone: it serves /simulate and never runs the analysis
NextSimulate ==
    \/ SimulateBeginMain
    \/ IterateMain
    \/ FinishMain
    \/ SimulateEndMain

SpecSimulate == Init /\ [][NextSimulate]_vars

\* the steps of a request under way; a request may never come, but once the
\* handler has begun nothing in it waits
Handling ==
    \/ IterateMain
    \/ FinishMain
    \/ SimulateEndMain

SpecSimulateFair == SpecSimulate /\ WF_control(Handling)

\* ------------------------------------------- the report and the web page

\* success_probability is a multiple of 1 / ProbDen percent
ProbDen == 2

Probabilities == {R(k, ProbDen) : k \in 0..(100 * ProbDen)}

\* the first branch taken from 80, not from 80 inclusive
ReportTierStrict(success_probability) ==
    IF ~RLeq(success_probability, FromInt(80)) THEN "on track"
    ELSE IF RLeq(FromInt(60), success_probability) THEN "moderate"
    ELSE "low"

\* the recommendation generate_report prints: if >= 80, elif >= 60, else
ReportTier(success_probability) ==
    IF RLeq(FromInt(80), success_probability) THEN "on track"
    ELSE IF RLeq(FromInt(60), success_probability) THEN "moderate"
    ELSE "low"

\* the class the page gives the probability: if (prob >= 80) 'high';
\* else if (prob >= 60) 'medium'; else 'low'
ColourClass(prob) ==
    IF RLeq(FromInt(80), prob) THEN "high"
    ELSE IF RLeq(FromInt(60), prob) THEN "medium"
    ELSE "low"

\* a summary with some success_probability reaches the report and the page
InitReport ==
    /\ rng = 0
    /\ InitRuns
    /\ request = [r \in Runs |-> [received |-> FALSE]]
    /\ response = [r \in Runs |-> <<>>]
    /\ stage = [r \in Runs |-> "none"]
    /\ plot_data = [r \in Runs |-> [called |-> FALSE]]
    /\ sens = [status |-> "none"]
    /\ \E p \in Probabilities :
           report = [success_probability |-> p, tier |-> None,
                     colour |-> None]

\* generate_report(summary, inputs) prints its recommendation
GenerateReport ==
    /\ report.tier = None
    /\ report' = [report EXCEPT
                     !.tier = ReportTier(report.success_probability)]
    /\ UNCHANGED <<rng, pc, variant, args, locals, month, results, samples,
                   contributions_added, self_results, summary, error,
                   request, response, stage, plot_data, sens>>

\* the page's script colours the probability
ColourProbability ==
    /\ report.colour = None
    /\ report' = [report EXCEPT
                     !.colour = ColourClass(report.success_probability)]
    /\ UNCHANGED <<rng, pc, variant, args, locals, month, results, samples,
                   contributions_added, self_results, summary, error,
                   request, response, stage, plot_data, sens>>

NextReport == GenerateReport \/ ColourProbability

SpecReport == InitReport /\ [][NextReport]_vars

\* ----------------------------------------------------------------- claims

\* the parameter sets the data model calls valid
Valid(p) == p.years >= 1 /\ p.n_simulations >= 1

Columns(r) == 1..args[r].n_simulations

\* C1: for valid parameters the matrix stored in self.results has exactly
\* years*12+1 rows and n_simulations columns, and every cell of row 0 is
\* current_savings.
C1_MatrixShape ==
    \A r \in Runs :
        (pc[r] = "done" /\ Valid(args[r])) =>
            /\ DOMAIN self_results[r] = 0..(args[r].years * 12)
            /\ Cardinality(DOMAIN self_results[r]) = args[r].years * 12 + 1
            /\ \A m \in DOMAIN self_results[r] :
                   Len(self_results[r][m]) = args[r].n_simulations
            /\ \A c \in Columns(r) :
                   self_results[r][0][c] = args[r].current_savings

C1_Witness ==
    \E r \in Runs :
        /\ pc[r] = "done"
        /\ args[r].years = 2
        /\ args[r].n_simulations >= 2
        /\ args[r].current_savings > 0
        /\ Cardinality(DOMAIN self_results[r]) = 25
        /\ self_results[r][24] # self_results[r][0]

\* C2: in the web simulator every month m of the loop leaves
\* balance[m][c] = balance[m-1][c] * (1 + sample[m][c]) + monthly_contribution
\* in every column c: the contribution is added in every month, after the
\* return.
C2_AppEveryMonth ==
    \A r \in Runs :
        (pc[r] \in {"loop", "done"} /\ variant[r] = "app") =>
            /\ contributions_added[r] = month[r]
            /\ \A m \in 1..month[r] : \A c \in Columns(r) :
                   results[r][m][c] =
                       results[r][m - 1][c] * (1 + samples[r][m][c])
                         + args[r].monthly_contribution

C2_Witness ==
    \E r \in Runs :
        /\ pc[r] = "done"
        /\ variant[r] = "app"
        /\ args[r].years = 2
        /\ args[r].monthly_contribution = 1
        /\ args[r].n_simulations >= 2
        /\ \E c \in Columns(r) : samples[r][24][c] # 0
        /\ \E c \in Columns(r) : results[r][24][c] # results[r][23][c]

\* C3: in the extended simulator the contribution is added in month m
\* exactly when m is not a multiple of 12: a finished run of `years` years
\* added it in exactly 11*years months, and the final month gets none.
C3_McSkipsYearEnd ==
    \A r \in Runs :
        (pc[r] \in {"loop", "done"} /\ variant[r] = "mc") =>
            /\ \A m \in 1..month[r] : \A c \in Columns(r) :
                   results[r][m][c]
                     - results[r][m - 1][c] * (1 + samples[r][m][c])
                   = IF m % 12 # 0 THEN args[r].monthly_contribution ELSE 0
            /\ pc[r] = "done" =>
                   /\ contributions_added[r] = 11 * args[r].years
                   /\ args[r].years >= 1 =>
                          \A c \in Columns(r) :
                              LET last == locals[r].months
                              IN  results[r][last][c] =
                                      results[r][last - 1][c]
                                        * (1 + samples[r][last][c])

C3_Witness ==
    \E r \in Runs :
        /\ pc[r] = "done"
        /\ variant[r] = "mc"
        /\ args[r].years = 2
        /\ args[r].monthly_contribution = 1
        /\ args[r].n_simulations >= 2
        /\ contributions_added[r] = 22
        /\ \E c \in Columns(r) : results[r][11][c] # results[r][12][c]

\* the final-balance sample of a finished run: the last row of self.results
Final(r) == self_results[r][args[r].years * 12]

\* C4: the success comparison is inclusive: when every final balance equals
\* future_goal, success_probability is 100 (also when all of them are 0).
C4_InclusiveSuccess ==
    \A r \in Runs :
        (pc[r] = "done"
           /\ \A c \in Columns(r) : Final(r)[c] = locals[r].future_goal) =>
            summary[r].success_probability = FromInt(100)

C4_Witness ==
    \E r \in Runs :
        /\ pc[r] = "done"
        /\ args[r].n_simulations >= 2
        /\ args[r].years >= 1
        /\ args[r].goal_amount > 0
        /\ \A c \in Columns(r) : Final(r)[c] = locals[r].future_goal
        /\ summary[r].success_probability = FromInt(100)

\* C5: when every final balance is strictly below future_goal,
\* success_probability is 0 and avg_shortfall is future_goal minus the mean
\* of the final balances.
C5_AllBelow ==
    \A r \in Runs :
        (pc[r] = "done" /\ variant[r] = "mc"
           /\ \A c \in Columns(r) : Final(r)[c] < locals[r].future_goal) =>
            /\ summary[r].success_probability = FromInt(0)
            /\ summary[r].avg_shortfall =
                   RSub(FromInt(locals[r].future_goal),
                        R(Sum(Final(r)), args[r].n_simulations))

C5_Witness ==
    \E r \in Runs :
        /\ pc[r] = "done"
        /\ variant[r] = "mc"
        /\ args[r].n_simulations >= 2
        /\ \A c \in Columns(r) : Final(r)[c] < locals[r].future_goal
        /\ \E c, d \in Columns(r) : Final(r)[c] # Final(r)[d]
        /\ summary[r].avg_shortfall.den > 1

\* the columns whose final balance is below the goal, and their total deficit
ShortColumns(r) == {c \in Columns(r) : Final(r)[c] < locals[r].future_goal}

RECURSIVE DeficitTo(_, _)
DeficitTo(r, k) ==
    IF k = 0 THEN 0
    ELSE DeficitTo(r, k - 1)
           + (IF k \in ShortColumns(r)
              THEN locals[r].future_goal - Final(r)[k] ELSE 0)

\* C6: shortfall_probability = 100 - success_probability; avg_shortfall is
\* the mean of future_goal - b over exactly the balances b < future_goal,
\* and 0 when no balance falls short.
C6_Shortfall ==
    \A r \in Runs :
        (pc[r] = "done" /\ variant[r] = "mc") =>
            /\ RAdd(summary[r].shortfall_probability,
                    summary[r].success_probability) = FromInt(100)
            /\ summary[r].shortfall_probability =
                   R(100 * Cardinality(ShortColumns(r)), args[r].n_simulations)
            /\ ShortColumns(r) # {} =>
                   summary[r].avg_shortfall =
                       R(DeficitTo(r, args[r].n_simulations),
                         Cardinality(ShortColumns(r)))
            /\ ShortColumns(r) = {} => summary[r].avg_shortfall = FromInt(0)

C6_Witness ==
    \E r \in Runs :
        /\ pc[r] = "done"
        /\ variant[r] = "mc"
        /\ Cardinality(ShortColumns(r)) = 2
        /\ \E c \in Columns(r) : Final(r)[c] = locals[r].future_goal
        /\ \E c, d \in ShortColumns(r) : Final(r)[c] # Final(r)[d]

\* C7: the reported percentiles are non-decreasing, 5th <= 25th <= 50th <=
\* 75th <= 95th, and median_final_value is the 50th percentile.
C7_PercentilesMonotone ==
    \A r \in Runs :
        pc[r] = "done" =>
            LET q == summary[r].percentiles
            IN  /\ RLeq(q.p5, q.p25)
                /\ RLeq(q.p25, q.p50)
                /\ RLeq(q.p50, q.p75)
                /\ RLeq(q.p75, q.p95)
                /\ summary[r].median_final_value = q.p50

C7_Witness ==
    \E r \in Runs :
        /\ pc[r] = "done"
        /\ args[r].n_simulations = 3
        /\ Final(r)[1] > Final(r)[2]
        /\ Final(r)[2] # Final(r)[3]
        /\ summary[r].percentiles.p5 # summary[r].percentiles.p25
        /\ summary[r].percentiles.p75 # summary[r].percentiles.p95

\* C8: with annual_volatility = 0 every monthly sample equals
\* monthly_return, every row holds the same balance in all columns, and the
\* summary has min_value = max_value = median_final_value and
\* std_final_value = 0.
C8_ZeroVolatility ==
    \A r \in Runs :
        (pc[r] \in {"loop", "done"} /\ args[r].annual_volatility = 0) =>
            /\ \A m \in 1..month[r] : \A c \in Columns(r) :
                   /\ samples[r][m][c] = locals[r].monthly_return
                   /\ results[r][m][c] = results[r][m][1]
            /\ pc[r] = "done" =>
                   /\ summary[r].min_value = summary[r].max_value
                   /\ summary[r].max_value = summary[r].median_final_value
                   /\ summary[r].std_final_value = RSqrt(FromInt(0))

C8_Witness ==
    \E r \in Runs :
        /\ pc[r] = "done"
        /\ args[r].annual_volatility = 0
        /\ args[r].n_simulations = 3
        /\ args[r].years = 2
        /\ Final(r)[1] # args[r].current_savings
        /\ Final(r)[1] # 0
        /\ summary[r].std_final_value = RSqrt(FromInt(0))

\* C9: a run fails, and returns no summary, whenever n_simulations < 1 or
\* years < 1; the failure comes before any month is simulated; and a run on
\* valid input never fails.
C9_InvalidInputFails ==
    \A r \in Runs :
        /\ pc[r] = "done" => Valid(args[r])
        /\ (pc[r] = "failed" /\ ~Valid(args[r])) => month[r] = 0
        /\ (pc[r] = "failed" /\ Valid(args[r])) =>
               args[r].annual_volatility < 0

\* the samples run r receives at its next draw, as the generator stands
NextSamples(r, s) ==
    Normal(locals[r].monthly_return, locals[r].monthly_volatility,
           args[r].n_simulations, s)

\* C10: two concurrent runs share no mutable state: a step of one run never
\* changes the samples the other run is about to receive.
C10_SamplesPrivate ==
    [][\A r \in Runs :
          (/\ pc[r] = "loop" /\ pc'[r] = "loop"
           /\ month[r] < locals[r].months
           /\ month'[r] = month[r])
          => NextSamples(r, rng') = NextSamples(r, rng)]_vars

\* C15: future_goal is goal_amount * (1 + inflation_rate)^years with the
\* inflation rate already divided by 100; for goal_amount >= 0 it is >= 0
\* exactly when goal_amount is 0, or the inflation rate is not below -100
\* percent, or years is even.
C15_FutureGoal ==
    \A r \in Runs :
        (pc[r] \in {"loop", "done"} /\ Valid(args[r])) =>
            /\ locals[r].inflation_rate * 100 = args[r].inflation_rate
            /\ locals[r].future_goal =
                   args[r].goal_amount
                   * Pow(1 + locals[r].inflation_rate, args[r].years)
            /\ args[r].goal_amount >= 0 =>
                   (locals[r].future_goal >= 0
                       <=> \/ args[r].goal_amount = 0
                           \/ args[r].inflation_rate >= -100
                           \/ args[r].years % 2 = 0)
            /\ pc[r] = "done" =>
                   summary[r].future_goal = FromInt(locals[r].future_goal)

\* a finished two-year run at -200 percent inflation: 1 + inflation_rate is
\* -1, its square is 1, and the goal is the amount itself
C15_Witness ==
    \E r \in Runs :
        /\ pc[r] = "done"
        /\ args[r].years = 2
        /\ args[r].inflation_rate = -200
        /\ args[r].goal_amount = MaxMoney
        /\ locals[r].future_goal = MaxMoney
        /\ summary[r].future_goal = FromInt(MaxMoney)

\* C15 as stated: future_goal is >= 0 whenever goal_amount is >= 0, whatever
\* the inflation rate and the number of years
C15_NonNegativeForAnyInflation ==
    \A r \in Runs :
        (pc[r] \in {"loop", "done"} /\ Valid(args[r])
            /\ args[r].goal_amount >= 0) =>
            locals[r].future_goal >= 0

\* the runs C16 is about: valid parameters, no volatility, no contribution
Deterministic(r) ==
    /\ Valid(args[r])
    /\ args[r].annual_volatility = 0
    /\ args[r].monthly_contribution = 0

\* current_savings * (1 + annual_return)^y, the rate as a decimal
AnnualCompounding(r, y) ==
    args[r].current_savings * Pow(1 + args[r].annual_return \div 100, y)

\* C16: with annual_volatility = 0 and monthly_contribution = 0 the balance
\* at the end of every year y is current_savings * (1 + annual_return)^y, so
\* every final balance is current_savings * (1 + annual_return)^years, and
\* success_probability is 100 when that reaches future_goal.
C16_AnnualCompounding ==
    \A r \in Runs :
        (pc[r] \in {"loop", "done"} /\ Deterministic(r)) =>
            /\ pc[r] = "loop" =>
                   \A y \in 0..args[r].years :
                       y * 12 <= month[r] =>
                           \A c \in Columns(r) :
                               results[r][y * 12][c] = AnnualCompounding(r, y)
            /\ pc[r] = "done" =>
                   /\ \A c \in Columns(r) :
                          Final(r)[c] = AnnualCompounding(r, args[r].years)
                   /\ AnnualCompounding(r, args[r].years)
                          >= locals[r].future_goal
                      => summary[r].success_probability = FromInt(100)

\* a finished run of two years at a return of 409500 percent, 4096-fold a
\* year: the savings have grown 4096 * 4096-fold and the goal is met
C16_Witness ==
    \E r \in Runs :
        /\ pc[r] = "done"
        /\ Deterministic(r)
        /\ args[r].annual_return = 409500
        /\ args[r].years = 2
        /\ args[r].current_savings = 1
        /\ args[r].goal_amount = MaxMoney
        /\ Final(r)[1] = 16777216
        /\ summary[r].success_probability = FromInt(100)

\* the summary computed anew from a stored matrix and the run's parameters
Summarize(r, matrix) ==
    Summary(variant[r], matrix[args[r].years * 12], locals[r].future_goal,
            args[r].n_simulations)

\* C13: the statistics step draws no random number and changes no cell of
\* the matrix, and the summary it returns is the summary of the final row
\* and future_goal alone: computed again from the matrix the step leaves
\* behind, the summary is the same.
C13_StatisticsStep ==
    [][\A r \in Runs :
           (pc[r] = "loop" /\ pc'[r] = "done") =>
               /\ rng' = rng
               /\ results'[r] = results[r]
               /\ self_results'[r] = results[r]
               /\ locals'[r] = locals[r]
               /\ summary'[r] = Summarize(r, results[r])
               /\ summary'[r] = Summarize(r, self_results'[r])]_vars

\* a finished run with volatility whose columns ended apart: its summary is
\* not that of any other row
C13_Witness ==
    \E r \in Runs :
        /\ pc[r] = "done"
        /\ args[r].n_simulations >= 2
        /\ args[r].annual_volatility = 100
        /\ summary[r].min_value # summary[r].max_value
        /\ summary[r] = Summarize(r, self_results[r])

\* the matrix simulator v builds from parameters p when its draws are smp,
\* rows 0..Len(smp)
RECURSIVE TrajectoryTo(_, _, _, _)
TrajectoryTo(v, p, smp, m) ==
    IF m = 0
    THEN <<[c \in 1..p.n_simulations |-> p.current_savings]>>
    ELSE LET upto == TrajectoryTo(v, p, smp, m - 1)
         IN  Append(upto, NextRow(v, upto[m], smp[m], m,
                                  p.monthly_contribution))

\* the same with the rows numbered from 0
Trajectory(v, p, smp) ==
    LET rows == TrajectoryTo(v, p, smp, Len(smp))
    IN  [m \in 0..Len(smp) |-> rows[m + 1]]

\* the fields both summaries report
SharedFields(s) ==
    [success_probability |-> s.success_probability,
     future_goal |-> s.future_goal,
     median_final_value |-> s.median_final_value,
     mean_final_value |-> s.mean_final_value,
     std_final_value |-> s.std_final_value,
     min_value |-> s.min_value,
     max_value |-> s.max_value,
     percentiles |-> s.percentiles]

\* C19: given the parameters and the draws of a run, the matrices of the
\* two simulators are those of the run; with monthly_contribution = 0 they
\* are the same matrix and the fields both summaries report are equal; with
\* monthly_contribution > 0 the matrices are equal in months 0..11 and
\* differ in month 12.
C19_TwoSimulators ==
    \A r \in Runs :
        (pc[r] = "done" /\ Valid(args[r])) =>
            LET app == Trajectory("app", args[r], samples[r])
                mc == Trajectory("mc", args[r], samples[r])
                own == IF variant[r] = "app" THEN app ELSE mc
                last == args[r].years * 12
            IN  /\ self_results[r] = own
                /\ args[r].monthly_contribution = 0 =>
                       /\ app = mc
                       /\ SharedFields(summary[r]) =
                              SharedFields(AppSummary(app[last],
                                  locals[r].future_goal,
                                  args[r].n_simulations))
                       /\ SharedFields(summary[r]) =
                              SharedFields(McSummary(mc[last],
                                  locals[r].future_goal,
                                  args[r].n_simulations))
                /\ args[r].monthly_contribution > 0 =>
                       /\ \A m \in 0..11 : app[m] = mc[m]
                       /\ app[12] # mc[12]

\* a run of monte_carlo.py with a contribution and volatility, past its
\* first year end: app.py's matrix for the same draws is equal in month 11
\* and a contribution ahead in month 12
C19_Witness ==
    \E r \in Runs :
        /\ pc[r] = "done"
        /\ variant[r] = "mc"
        /\ Valid(args[r])
        /\ args[r].monthly_contribution = 1
        /\ args[r].annual_volatility = 100
        /\ args[r].n_simulations >= 2
        /\ LET app == Trajectory("app", args[r], samples[r])
           IN  /\ app[11] = self_results[r][11]
               /\ \A c \in Columns(r) :
                      app[12][c] = self_results[r][12][c] + 1

\* the request of run r was parsed and its run_simulation returned
Completed(r) ==
    /\ request[r].object
    /\ ParseError(request[r].data) = None
    /\ pc[r] = "done"

\* the one response of run r is the success response with the run's
\* summary
IsSuccess(r) ==
    /\ Len(response[r]) = 1
    /\ response[r][1].body.success
    /\ DOMAIN response[r][1].body = {"success", "summary", "plot"}
    /\ response[r][1].body.summary = summary[r]
    /\ response[r][1].status = 200

\* the one response of run r is the error response: an error string,
\* status 500, no summary and nothing else
IsError(r) ==
    /\ Len(response[r]) = 1
    /\ ~response[r][1].body.success
    /\ DOMAIN response[r][1].body = {"success", "error"}
    /\ response[r][1].body.error \in
           {"BadRequest", "AttributeError", "TypeError", "ValueError",
            "IndexError"}
    /\ response[r][1].status = 500

\* C11: every /simulate request is answered, and the responses sent for it
\* are one response: success = true with the summary exactly when the
\* parsing and run_simulation completed, and otherwise success = false with
\* an error string, no summary or partial result, and status 500.
C11_OneResponse ==
    /\ [](\A r \in Runs :
              IF stage[r] = "responded"
              THEN IF Completed(r) THEN IsSuccess(r) ELSE IsError(r)
              ELSE response[r] = <<>>)
    /\ \A r \in Runs : (stage[r] = "running") ~> (stage[r] = "responded")

\* a request for no column, answered after the whole loop ran and the
\* statistics raised: an error, and nothing of the twelve rows
C11_Witness ==
    \E r \in Runs :
        /\ stage[r] = "responded"
        /\ request[r].object
        /\ pc[r] = "failed"
        /\ month[r] = 12
        /\ IsError(r)

\* the three rates run r works with are those it was called with, divided
\* by 100 once
ConvertedOnce(a, l) ==
    /\ l.annual_return * 100 = a.annual_return
    /\ l.annual_volatility * 100 = a.annual_volatility
    /\ l.inflation_rate * 100 = a.inflation_rate

\* C12: on both call paths every run works with annual_return,
\* annual_volatility and inflation_rate divided by 100 once, the
\* percentages being those of the caller's dictionary (the parsed request;
\* base_inputs with the test value in place), and no step of an analysis
\* changes base_inputs, so the next run converts the same percentages again.
C12_ConvertedOncePerRun ==
    [][\A r \in Runs :
           /\ pc'[r] \in {"loop", "done"} => ConvertedOnce(args'[r], locals'[r])
           /\ (stage'[r] = "running" /\ pc'[r] \in {"loop", "done"}) =>
                  args'[r] = Params(request'[r].data)
           /\ (sens'.status = "running" /\ sens'.i >= 1
                  /\ pc'[r] \in {"loop", "done"}) =>
                  args'[r] = [sens'.base_inputs EXCEPT
                                 ![sens'.variable_to_test] =
                                     sens'.test_values[sens'.i]]
           /\ sens.status = "running" =>
                  sens'.base_inputs = sens.base_inputs]_vars

\* the second run of an analysis of annual_volatility at 100 percent twice
\* has returned: it worked with 1.0, and base_inputs still says 0
C12_Witness ==
    /\ sens.status = "running"
    /\ sens.variable_to_test = "annual_volatility"
    /\ sens.test_values = <<100, 100>>
    /\ sens.i = 2
    /\ sens.base_inputs.annual_volatility = 0
    /\ sens.base_inputs.inflation_rate = 100
    /\ pc[1] = "done"
    /\ locals[1].annual_volatility = 1
    /\ locals[1].inflation_rate = 1

\* the summary a simulator computes from parameters a and draws smp alone
SummaryOf(v, a, smp) ==
    Summary(v, Trajectory(v, a, smp)[a.years * 12],
            FutureGoal(a.goal_amount, PercentToDecimal(a.inflation_rate),
                       a.years),
            a.n_simulations)

\* C17: whenever a run returns, on a new simulator or on one that has run
\* before, self.results is the matrix of this run and nothing else, and the
\* summary is the one that follows from this run's parameters and draws
\* alone, whatever matrix and summary the object held before.
C17_NothingCarriesOver ==
    [][\A r \in Runs :
           (pc[r] = "loop" /\ pc'[r] = "done") =>
               /\ self_results'[r] = results[r]
               /\ self_results'[r] =
                      Trajectory(variant[r], args[r], samples[r])
               /\ summary'[r] = SummaryOf(variant[r], args[r], samples[r])]_vars

\* the second run of an analysis of current_savings has returned with a
\* median other than the first run's, and the matrix kept is the second's
C17_Witness ==
    /\ sens.status = "running"
    /\ sens.variable_to_test = "current_savings"
    /\ sens.i = 2
    /\ pc[1] = "done"
    /\ Len(sens.results) = 1
    /\ sens.results[1].median_value # summary[1].median_final_value
    /\ self_results[1][0][1] = sens.test_values[2]
    /\ self_results[1][0][1] # sens.test_values[1]

\* C18: an iteration of the loop writes row month + 1 and no other, from
\* row month and the draws of that month; the rows after it are still the
\* zeros of np.zeros, so no row is written twice; and when the loop is over
\* the statistics step and create_plot leave every cell as it is.
C18_RowsInOrder ==
    [][\A r \in Runs :
           /\ (pc[r] = "loop" /\ pc'[r] = "loop" /\ month'[r] # month[r]) =>
                  LET m == month[r] + 1
                      added == IF AddsContribution(variant[r], m)
                               THEN args[r].monthly_contribution ELSE 0
                  IN  /\ month'[r] = m
                      /\ Len(samples'[r]) = m
                      /\ \A k \in DOMAIN results[r] :
                             k # m => results'[r][k] = results[r][k]
                      /\ \A k \in DOMAIN results[r] :
                             k > m => \A c \in Columns(r) :
                                          results'[r][k][c] = 0
                      /\ \A c \in Columns(r) :
                             results'[r][m][c] =
                                 results[r][m - 1][c] * (1 + samples'[r][m][c])
                                   + added
           /\ (pc[r] = "loop" /\ pc'[r] = "done") =>
                  /\ month[r] = args[r].years * 12
                  /\ results'[r] = results[r]
                  /\ self_results'[r] = results[r]
           /\ (pc[r] = "done" /\ pc'[r] = "done") =>
                  /\ results'[r] = results[r]
                  /\ self_results'[r] = self_results[r]]_vars

\* a request answered with a plot after a two-year run with volatility on
\* two columns: the matrix kept is the one the loop left
C18_Witness ==
    \E r \in Runs :
        /\ stage[r] = "responded"
        /\ pc[r] = "done"
        /\ plot_data[r].called
        /\ ~plot_data[r].fails
        /\ args[r].years = 2
        /\ args[r].n_simulations = 2
        /\ args[r].annual_volatility = 100
        /\ self_results[r] = results[r]
        /\ self_results[r][24][1] # self_results[r][24][2]

\* C20: when run_simulation has returned, the request is answered with
\* success = true and the run's whole summary whether or not create_plot
\* failed; when it failed, create_plot returned None and the plot sent is
\* null.
C20_PlotFailureKeepsSuccess ==
    \A r \in Runs :
        (stage[r] = "responded" /\ pc[r] = "done") =>
            /\ plot_data[r].called
            /\ Len(response[r]) = 1
            /\ response[r][1].status = 200
            /\ response[r][1].body.success
            /\ response[r][1].body.summary = summary[r]
            /\ response[r][1].body.plot = plot_data[r].returned
            /\ plot_data[r].fails => plot_data[r].returned = None

\* a request whose plot failed after a run with volatility on two columns
C20_Witness ==
    \E r \in Runs :
        /\ stage[r] = "responded"
        /\ pc[r] = "done"
        /\ plot_data[r].called
        /\ plot_data[r].fails
        /\ args[r].n_simulations = 2
        /\ args[r].annual_volatility = 100
        /\ response[r][1].body.success
        /\ response[r][1].body.plot = None
        /\ response[r][1].body.summary.n_simulations = 2

\* C14: for every success_probability in [0, 100] the report prints one
\* tier: "on track" from 80 up, "moderate" from 60 up to but not including
\* 80, "low" below 60; the page's class is high, medium, low on the same
\* boundaries.
C14_Tiers ==
    LET p == report.success_probability
    IN  /\ RLeq(FromInt(0), p) /\ RLeq(p, FromInt(100))
        /\ report.tier # None =>
               /\ report.tier \in {"on track", "moderate", "low"}
               /\ report.tier = "on track" <=> RLeq(FromInt(80), p)
               /\ report.tier = "moderate" <=>
                      RLeq(FromInt(60), p) /\ ~RLeq(FromInt(80), p)
               /\ report.tier = "low" <=> ~RLeq(FromInt(60), p)
        /\ report.colour # None =>
               /\ report.colour \in {"high", "medium", "low"}
               /\ report.colour = "high" <=> RLeq(FromInt(80), p)
               /\ report.colour = "medium" <=>
                      RLeq(FromInt(60), p) /\ ~RLeq(FromInt(80), p)
               /\ report.colour = "low" <=> ~RLeq(FromInt(60), p)
        /\ (report.tier # None /\ report.colour # None) =>
               /\ report.tier = "on track" <=> report.colour = "high"
               /\ report.tier = "moderate" <=> report.colour = "medium"

\* a probability of exactly 80 reported as on track and coloured high
C14_Witness ==
    /\ report.success_probability = FromInt(80)
    /\ report.tier = "on track"
    /\ report.colour = "high"

\* C21: in a finished run of monte_carlo.py every final balance is counted
\* once: the balances counted as success and the balances entering the
\* shortfall average are n_simulations together; success_probability is
\* 100 times the first count over n_simulations and lies in [0, 100];
\* avg_shortfall is above 0 exactly when success_probability is below 100.
C21_ClassifiedOnce ==
    \A r \in Runs :
        (pc[r] = "done" /\ variant[r] = "mc" /\ Valid(args[r])) =>
            LET future_goal == locals[r].future_goal
                success_count == SuccessCount(Final(r), future_goal)
                shortfall_amount == ShortfallAmount(Final(r), future_goal)
                zero == FromInt(0)
                hundred == FromInt(100)
            IN  /\ success_count + Len(shortfall_amount) =
                       args[r].n_simulations
                /\ \A c \in Columns(r) :
                       MeetsGoal(Final(r)[c], future_goal)
                           # FallsShort(Final(r)[c], future_goal)
                /\ summary[r].success_probability =
                       R(100 * success_count, args[r].n_simulations)
                /\ RLeq(zero, summary[r].success_probability)
                /\ RLeq(summary[r].success_probability, hundred)
                /\ (~RLeq(summary[r].avg_shortfall, zero))
                       <=> ~RLeq(hundred, summary[r].success_probability)

\* a finished run where some balances reach the goal and some fall short
C21_Witness ==
    \E r \in Runs :
        /\ pc[r] = "done" /\ variant[r] = "mc" /\ Valid(args[r])
        /\ args[r].n_simulations >= 2
        /\ SuccessCount(Final(r), locals[r].future_goal) >= 1
        /\ Len(ShortfallAmount(Final(r), locals[r].future_goal)) >= 1
        /\ ~RLeq(summary[r].avg_shortfall, FromInt(0))
        /\ ~RLeq(FromInt(100), summary[r].success_probability)

====
